---- MODULE Spec2Model ----
(***************************************************************************)
(* Beam-search decoding controller of vllm.                                *)
(*                                                                         *)
(*   src/vllm/engine/protocol.py  EngineClient.beam_search (the call)      *)
(*   src/vllm/beam_search.py      EOSTokenConfig, BeamSearchInstance,      *)
(*                                get_beam_search_score                    *)
(*                                                                         *)
(* The entry points are modelled over one set of variables:                *)
(*   Spec      one call of EngineClient.beam_search, with its per-step     *)
(*             generation requests as concurrent tasks;                    *)
(*   InstSpec  a BeamSearchInstance driven through its mutating methods;   *)
(*   RankSpec  get_best_completed_beams applied to drawn instances;        *)
(*   FullSpec  Spec and RankSpec side by side.                             *)
(*                                                                         *)
(* Numbers.  Log-probabilities are integers and a score is the exact       *)
(* rational cum_logprob * (k+1)^alpha / (k+seq_len)^alpha, kept as a       *)
(* numerator and a positive denominator and compared by cross              *)
(* multiplication; length_penalty (alpha) ranges over small naturals.      *)
(* IEEE rounding of the Python floats is not modelled.                     *)
(*                                                                         *)
(* Optional values (Optional[int]) are sequences of length 0 or 1.         *)
(***************************************************************************)
EXTENDS Integers, Sequences, FiniteSets, TLC

VARIABLES
    pc,          \* position of the beam_search coroutine ("inst": no call, the instance API is driven)
    prompt,      \* the prompt argument: [kind, prompt_token_ids]
    params,      \* BeamSearchParams of the call
    eos_config,  \* EOSTokenConfig
    step,        \* loop variable of `for step in range(max_tokens)`
    current_step,
    all_beams,   \* active candidates
    completed,   \* completed candidates
    tasks,       \* the asyncio tasks of the current step
    nrequests,   \* number of self.generate requests issued so far
    error,       \* exception that left the call, <<>> if none
    yielded,     \* whether the generator yielded its RequestOutput
    outputs,     \* RequestOutput.outputs of the yielded value
    heap,        \* BeamSearchSequence objects handed to a BeamSearchInstance, by identity
    inst,        \* the BeamSearchInstance: beams and completed (object ids), current_step
    ret          \* the last value returned by a side-effect-free method

callVars == <<pc, prompt, params, eos_config, step, current_step, all_beams,
              completed, tasks, nrequests, error, yielded, outputs>>
instVars == <<heap, inst, ret>>
vars == <<callVars, instVars>>

(***************************************************************************)
(* Bounds of the model.                                                    *)
(***************************************************************************)
MaxTokens == 2      \* max_tokens ranges over 1..MaxTokens
MaxWidth == 2       \* beam_width ranges over 1..MaxWidth

Tokens == {0, 1}                \* token ids
MinTokensSet == {0 - 1, 0, 2}   \* values of min_tokens
PenaltySet == {0, 1}            \* values of length_penalty
DistLens == 0..2                \* entries of one returned distribution
PrimaryEosSet == {<<>>, <<1>>}  \* tokenizer.eos_token_id: absent, or token 1
AdditionalEosSet == {{}, {0}}   \* additional EOS ids: none, or token 0
PromptTokens == <<0>>           \* prompt_token_ids of the call

Min(a, b) == IF a <= b THEN a ELSE b
Max(a, b) == IF a >= b THEN a ELSE b

RECURSIVE Pow(_, _)
Pow(b, e) == IF e = 0 THEN 1 ELSE b * Pow(b, e - 1)

Last(s) == s[Len(s)]

(***************************************************************************)
(* EOSTokenConfig                                                          *)
(***************************************************************************)
all_eos_token_ids(cfg) ==
    cfg.additional_eos_token_ids
        \cup {cfg.primary_eos_token_id[i] : i \in DOMAIN cfg.primary_eos_token_id}

is_eos_token(cfg, token_id) == token_id \in all_eos_token_ids(cfg)

\* The gate with the length test off by one: a list of exactly min_tokens
\* tokens may not stop.
should_stop_at_eos_strict(cfg, tokens, cur_step) ==
    IF cfg.ignore_eos THEN FALSE
    ELSE IF Len(tokens) <= cfg.min_tokens THEN FALSE
    ELSE TRUE

should_stop_at_eos(cfg, tokens, cur_step) ==
    IF cfg.ignore_eos THEN FALSE
    ELSE IF Len(tokens) < cfg.min_tokens THEN FALSE
    ELSE TRUE

\* `eos_config.primary_eos_token_id or 0`
PrimaryOrZero(cfg) ==
    IF cfg.primary_eos_token_id = <<>> THEN 0 ELSE cfg.primary_eos_token_id[1]

(***************************************************************************)
(* get_beam_search_score: an exact rational [num, den], den > 0.           *)
(***************************************************************************)
K == 5

\* The score with the trailing EOS token counted in the length.
get_beam_search_score_full_len(tokens, cumulative_logprob, eos_token_id, length_penalty) ==
    [num |-> cumulative_logprob * Pow(K + 1, length_penalty),
     den |-> Pow(K + Len(tokens), length_penalty)]

\* The score multiplied by the length penalty instead of divided by it.
get_beam_search_score_times_lp(tokens, cumulative_logprob, eos_token_id, length_penalty) ==
    LET seq_len == IF Len(tokens) > 0 /\ Last(tokens) = eos_token_id
                   THEN Len(tokens) - 1 ELSE Len(tokens)
    IN  [num |-> cumulative_logprob * Pow(K + seq_len, length_penalty),
         den |-> Pow(K + 1, length_penalty)]

get_beam_search_score(tokens, cumulative_logprob, eos_token_id, length_penalty) ==
    LET seq_len == IF Len(tokens) > 0 /\ Last(tokens) = eos_token_id
                   THEN Len(tokens) - 1 ELSE Len(tokens)
        alpha == length_penalty
    IN  \* cumulative_logprob / (((k + seq_len) ** alpha) / ((k + 1) ** alpha))
        [num |-> cumulative_logprob * Pow(K + 1, alpha),
         den |-> Pow(K + seq_len, alpha)]

ScoreLess(a, b) == a.num * b.den < b.num * a.den
ScoreEq(a, b) == a.num * b.den = b.num * a.den

\* sort_beams_key of beam_search, and the key of get_best_completed_beams
sort_beams_key(cfg, length_penalty, beam) ==
    get_beam_search_score(beam.tokens, beam.cum_logprob, PrimaryOrZero(cfg),
                          length_penalty)

(***************************************************************************)
(* sorted(seq, key=score, reverse=True): stable, descending.  The sort     *)
(* works on ids (indices) into a table of candidates: each id is inserted  *)
(* behind every id whose key is greater or equal.                          *)
(***************************************************************************)
\* The same insertion placed before equal keys: a sort that is not stable.
RECURSIVE InsertIdDescUnstable(_, _, _, _, _)
InsertIdDescUnstable(cfg, lp, objs, s, id) ==
    IF s = <<>> THEN <<id>>
    ELSE IF ~ScoreLess(sort_beams_key(cfg, lp, objs[id]),
                       sort_beams_key(cfg, lp, objs[Head(s)]))
         THEN <<id>> \o s
         ELSE <<Head(s)>> \o InsertIdDescUnstable(cfg, lp, objs, Tail(s), id)

RECURSIVE InsertIdDesc(_, _, _, _, _)
InsertIdDesc(cfg, lp, objs, s, id) ==
    IF s = <<>> THEN <<id>>
    ELSE IF ScoreLess(sort_beams_key(cfg, lp, objs[Head(s)]),
                      sort_beams_key(cfg, lp, objs[id]))
         THEN <<id>> \o s
         ELSE <<Head(s)>> \o InsertIdDesc(cfg, lp, objs, Tail(s), id)

RECURSIVE SortedIdsFrom(_, _, _, _, _)
SortedIdsFrom(cfg, lp, objs, acc, s) ==
    IF s = <<>> THEN acc
    ELSE SortedIdsFrom(cfg, lp, objs, InsertIdDesc(cfg, lp, objs, acc, Head(s)),
                       Tail(s))

\* A sort that leaves the list in the order it was given.
Unsorted(cfg, lp, s) == s

\* sorted(...) of a list of candidates
SortedDesc(cfg, lp, s) ==
    LET idx == SortedIdsFrom(cfg, lp, s, <<>>, [i \in 1..Len(s) |-> i])
    IN  [k \in 1..Len(s) |-> s[idx[k]]]

\* A slice that keeps one element too many.
TakeOneMore(s, n) == SubSeq(s, 1, IF n + 1 <= Len(s) THEN n + 1 ELSE Len(s))

\* seq[:n]
Take(s, n) == SubSeq(s, 1, Min(n, Len(s)))

RECURSIVE Flatten(_)
Flatten(ss) == IF ss = <<>> THEN <<>> ELSE Head(ss) \o Flatten(Tail(ss))

(***************************************************************************)
(* get_best_completed_beams and should_early_stop, as functions of the     *)
(* candidate table `objs`, the active list `beams` and the completed list  *)
(* `done` (lists of ids).  Margins are in hundredths.                      *)
(***************************************************************************)
get_best_completed_beams(cfg, objs, done, beam_width, length_penalty) ==
    IF done = <<>> THEN <<>>
    ELSE Take(SortedIdsFrom(cfg, length_penalty, objs, <<>>, done), beam_width)

base_margin == 90          \* 0.90
length_adjustment_rate == 2    \* 0.02 per token of length difference
min_margin == 70           \* 0.70

\* A margin that is not kept above the floor.
adaptive_margin_no_floor(seq_len, completed_len) ==
    base_margin - Max(0, (seq_len - completed_len) * length_adjustment_rate)

adaptive_margin(seq_len, completed_len) ==
    LET length_adjustment == Max(0, (seq_len - completed_len) * length_adjustment_rate)
    IN  Max(min_margin, base_margin - length_adjustment)

\* current_score > worst_completed_score * adaptive_margin
ExceedsMargin(current_score, worst_completed_score, margin) ==
    current_score.num * worst_completed_score.den * 100
        > worst_completed_score.num * margin * current_score.den

\* An early stop that does not require beam_width completed candidates.
should_early_stop_any_count(cfg, objs, beams, done, beam_width, length_penalty) ==
    IF done = <<>> THEN FALSE
    ELSE
    LET best_completed ==
            get_best_completed_beams(cfg, objs, done, beam_width, length_penalty)
        worst == objs[Last(best_completed)]
    IN  \A i \in DOMAIN beams :
            LET beam == objs[beams[i]]
            IN  ~beam.is_finished =>
                    ~ExceedsMargin(sort_beams_key(cfg, length_penalty, beam),
                                   sort_beams_key(cfg, length_penalty, worst),
                                   adaptive_margin(Len(beam.tokens), Len(worst.tokens)))

should_early_stop(cfg, objs, beams, done, beam_width, length_penalty) ==
    IF Len(done) < beam_width THEN FALSE
    ELSE
    LET best_completed ==
            get_best_completed_beams(cfg, objs, done, beam_width, length_penalty)
    IN  IF Len(best_completed) < beam_width THEN FALSE
        ELSE
        LET worst == objs[Last(best_completed)]
            worst_completed_score == sort_beams_key(cfg, length_penalty, worst)
        IN  \A i \in DOMAIN beams :
                LET beam == objs[beams[i]]
                    current_score == sort_beams_key(cfg, length_penalty, beam)
                    seq_len == Len(beam.tokens)
                    completed_len == Len(worst.tokens)
                IN  ~beam.is_finished =>
                        ~ExceedsMargin(current_score, worst_completed_score,
                                       adaptive_margin(seq_len, completed_len))

(***************************************************************************)
(* Candidates (BeamSearchSequence)                                         *)
(***************************************************************************)
NewSequence(tokens, logprobs, cum_logprob) ==
    [tokens |-> tokens, logprobs |-> logprobs, cum_logprob |-> cum_logprob,
     finish_reason |-> "none", stop_reason |-> <<>>,
     is_finished |-> FALSE, finished_step |-> <<>>]

(***************************************************************************)
(* The generation service.  A response either carries one distribution,    *)
(* an ordered mapping token id -> log-probability (the dict's iteration    *)
(* order), or no logprobs at all.  The k-th entry of a distribution has    *)
(* log-probability -k.                                                     *)
(***************************************************************************)
Injective(f) == \A i, j \in DOMAIN f : f[i] = f[j] => i = j

Dists ==
    UNION {{[k \in 1..n |-> [token |-> f[k], logprob |-> 0 - k]] :
                f \in {g \in [1..n -> Tokens] : Injective(g)}} : n \in DistLens}

Responses ==
    {[has_logprobs |-> TRUE, logprobs |-> d] : d \in Dists}
        \cup {[has_logprobs |-> FALSE, logprobs |-> <<>>]}

NoResponse == [has_logprobs |-> FALSE, logprobs |-> <<>>]

(***************************************************************************)
(* EngineClient.beam_search                                                *)
(***************************************************************************)
PromptKinds == {"tokens", "explicit_encoder_decoder", "embeds"}

ParamsSet ==
    [beam_width : 1..MaxWidth,
     max_tokens : 1..MaxTokens,
     ignore_eos : BOOLEAN,
     length_penalty : PenaltySet,
     include_stop_str_in_output : BOOLEAN,
     min_tokens : MinTokensSet,
     additional_eos_token_ids : AdditionalEosSet]

DefaultEosConfig ==
    [primary_eos_token_id |-> <<>>, additional_eos_token_ids |-> {},
     ignore_eos |-> FALSE, min_tokens |-> 0]

\* What detect_eos_tokens_from_tokenizer can return for the tokenizers considered.
DetectedEos ==
    {[DefaultEosConfig EXCEPT !.primary_eos_token_id = p] : p \in PrimaryEosSet}

EmptyInst == [beams |-> <<>>, completed |-> <<>>, current_step |-> 0]
NoRet == [op |-> "none"]

Init ==
    /\ pc = "start"
    /\ prompt \in [kind : PromptKinds, prompt_token_ids : {PromptTokens}]
    /\ params \in ParamsSet
    /\ eos_config = DefaultEosConfig
    /\ step = 0
    /\ current_step = 0
    /\ all_beams = <<>>
    /\ completed = <<>>
    /\ tasks = <<>>
    /\ nrequests = 0
    /\ error = <<>>
    /\ yielded = FALSE
    /\ outputs = <<>>
    /\ heap = <<>>
    /\ inst = EmptyInst
    /\ ret = NoRet

tokenized_length == Len(prompt.prompt_token_ids)

\* Start without the two prompt checks: every prompt is seeded.
StartNoCheck ==
    /\ pc = "start"
    /\ \E det \in DetectedEos :
          eos_config' =
             [det EXCEPT !.ignore_eos = params.ignore_eos,
                         !.min_tokens = params.min_tokens,
                         !.additional_eos_token_ids =
                             @ \cup params.additional_eos_token_ids]
    /\ all_beams' = <<NewSequence(prompt.prompt_token_ids, <<>>, 0)>>
    /\ pc' = "loop"
    /\ UNCHANGED <<instVars, prompt, params, step, current_step, completed,
                   tasks, nrequests, error, yielded, outputs>>

\* Lines 72-136: read the parameters, reject unsupported prompts, build the
\* EOS configuration and seed the search.
Start ==
    /\ pc = "start"
    /\ IF prompt.kind # "tokens"
       THEN /\ pc' = "failed"
            /\ error' = <<"NotImplementedError">>
            /\ UNCHANGED <<eos_config, all_beams>>
       ELSE /\ \E det \in DetectedEos :
                 eos_config' =
                    [det EXCEPT !.ignore_eos = params.ignore_eos,
                                !.min_tokens = params.min_tokens,
                                !.additional_eos_token_ids =
                                    @ \cup params.additional_eos_token_ids]
            /\ all_beams' = <<NewSequence(prompt.prompt_token_ids, <<>>, 0)>>
            /\ pc' = "loop"
            /\ UNCHANGED error
    /\ UNCHANGED <<instVars, prompt, params, step, current_step, completed, tasks,
                   nrequests, yielded, outputs>>

\* One task per active beam (lines 151-163).
NewTasks(beams, k) ==
    [i \in 1..Len(beams) |->
        [state |-> "pending", result |-> NoResponse, step |-> k,
         prompt_token_ids |-> beams[i].tokens, aborted |-> FALSE,
         completed_at |-> 0]]

\* should_early_stop evaluated on the lists of the call: the candidate table is
\* completed followed by all_beams.
EarlyStopHolds ==
    should_early_stop(eos_config, completed \o all_beams,
                      [i \in 1..Len(all_beams) |-> Len(completed) + i],
                      [i \in 1..Len(completed) |-> i],
                      params.beam_width, params.length_penalty)

\* A loop head that leaves the loop when the early-stop heuristic fires.
LoopHeadEarlyStop ==
    /\ pc = "loop"
    /\ step < params.max_tokens
    /\ current_step' = step
    /\ IF Len(all_beams) = 0 \/ EarlyStopHolds
       THEN /\ pc' = "after_loop"
            /\ UNCHANGED <<tasks, nrequests>>
       ELSE /\ tasks' = NewTasks(all_beams, step)
            /\ nrequests' = nrequests + Len(all_beams)
            /\ pc' = "gather"
    /\ UNCHANGED <<instVars, prompt, params, eos_config, step, all_beams, completed,
                   error, yielded, outputs>>

\* A loop head that leaves the loop once beam_width candidates have completed.
LoopHeadStopsWhenEnough ==
    /\ pc = "loop"
    /\ step < params.max_tokens
    /\ current_step' = step
    /\ IF Len(all_beams) = 0 \/ Len(completed) >= params.beam_width
       THEN /\ pc' = "after_loop"
            /\ UNCHANGED <<tasks, nrequests>>
       ELSE /\ tasks' = NewTasks(all_beams, step)
            /\ nrequests' = nrequests + Len(all_beams)
            /\ pc' = "gather"
    /\ UNCHANGED <<instVars, prompt, params, eos_config, step, all_beams, completed,
                   error, yielded, outputs>>

\* A loop head that treats an empty active set as an error.
LoopHeadFailsOnEmpty ==
    /\ pc = "loop"
    /\ step < params.max_tokens
    /\ current_step' = step
    /\ IF Len(all_beams) = 0
       THEN /\ pc' = "failed"
            /\ error' = <<"EmptyActiveSet">>
            /\ UNCHANGED <<tasks, nrequests>>
       ELSE /\ tasks' = NewTasks(all_beams, step)
            /\ nrequests' = nrequests + Len(all_beams)
            /\ pc' = "gather"
            /\ UNCHANGED error
    /\ UNCHANGED <<instVars, prompt, params, eos_config, step, all_beams, completed,
                   yielded, outputs>>

\* Lines 138-165: the head of one iteration, up to `await asyncio.gather`.
LoopHead ==
    /\ pc = "loop"
    /\ step < params.max_tokens
    /\ current_step' = step
    /\ IF Len(all_beams) = 0
       THEN /\ pc' = "after_loop"
            /\ UNCHANGED <<tasks, nrequests>>
       ELSE /\ tasks' = NewTasks(all_beams, step)
            /\ nrequests' = nrequests + Len(all_beams)
            /\ pc' = "gather"
    /\ UNCHANGED <<instVars, prompt, params, eos_config, step, all_beams, completed,
                   error, yielded, outputs>>

\* range(max_tokens) is exhausted.
LoopExit ==
    /\ pc = "loop"
    /\ step >= params.max_tokens
    /\ pc' = "after_loop"
    /\ UNCHANGED <<instVars, prompt, params, eos_config, step, current_step, all_beams,
                   completed, tasks, nrequests, error, yielded, outputs>>

\* A generation request returns its RequestOutput.
RequestReturns(i) ==
    /\ i \in DOMAIN tasks
    /\ tasks[i].state = "pending"
    /\ \E r \in Responses :
          tasks' = [tasks EXCEPT ![i].state = "done", ![i].result = r]
    /\ UNCHANGED <<instVars, pc, prompt, params, eos_config, step, current_step,
                   all_beams, completed, nrequests, error, yielded, outputs>>

\* A generation request raises.
RequestFails(i) ==
    /\ i \in DOMAIN tasks
    /\ tasks[i].state = "pending"
    /\ tasks' = [tasks EXCEPT ![i].state = "failed"]
    /\ UNCHANGED <<instVars, pc, prompt, params, eos_config, step, current_step,
                   all_beams, completed, nrequests, error, yielded, outputs>>

AllDone == \A i \in DOMAIN tasks : tasks[i].state = "done"
SomeFailed == \E i \in DOMAIN tasks : tasks[i].state = "failed"
Outstanding == {i \in DOMAIN tasks : tasks[i].state = "pending"}

\* A join that returns as soon as one task is done.
GatherReturnsFirst ==
    /\ pc = "gather"
    /\ \E i \in DOMAIN tasks : tasks[i].state = "done"
    /\ pc' = "classify"
    /\ UNCHANGED <<instVars, prompt, params, eos_config, step, current_step,
                   all_beams, completed, tasks, nrequests, error, yielded, outputs>>

\* asyncio.gather returns once every task is done (line 165).
GatherReturns ==
    /\ pc = "gather"
    /\ AllDone
    /\ pc' = "classify"
    /\ UNCHANGED <<instVars, prompt, params, eos_config, step, current_step, all_beams,
                   completed, tasks, nrequests, error, yielded, outputs>>

\* A join that swallows a failed task and goes on with the results it has.
GatherSwallows ==
    /\ pc = "gather"
    /\ SomeFailed
    /\ Outstanding = {}
    /\ pc' = "classify"
    /\ UNCHANGED <<instVars, prompt, params, eos_config, step, current_step,
                   all_beams, completed, tasks, nrequests, error, yielded, outputs>>

\* asyncio.gather propagates the first exception to the awaiting coroutine;
\* the other tasks are not cancelled and keep running.
GatherRaises ==
    /\ pc = "gather"
    /\ SomeFailed
    /\ pc' = "failed"
    /\ error' = <<"GenerationError">>
    /\ UNCHANGED <<instVars, prompt, params, eos_config, step, current_step, all_beams,
                   completed, tasks, nrequests, yielded, outputs>>

\* What self.generate does with a request whose task is cancelled: it aborts the
\* request in the generation service (EngineClient.abort) and ends cancelled.
CancelledRequest(t) == [t EXCEPT !.state = "cancelled", !.aborted = TRUE]

\* A cancellation that does not reach the tasks of the step.
CancelLeavesTasks ==
    /\ pc \in {"start", "gather"}
    /\ pc' = "cancelled"
    /\ error' = <<"CancelledError">>
    /\ UNCHANGED <<instVars, prompt, params, eos_config, step, current_step,
                   all_beams, completed, tasks, nrequests, yielded, outputs>>

\* The call is cancelled at one of its await points (lines 81-83, line 165).
\* Cancelling the awaiting coroutine cancels the gather, which cancels every
\* task that has not completed.
Cancel ==
    /\ pc \in {"start", "gather"}
    /\ pc' = "cancelled"
    /\ error' = <<"CancelledError">>
    /\ tasks' = [i \in DOMAIN tasks |->
                    IF tasks[i].state = "pending"
                    THEN CancelledRequest(tasks[i]) ELSE tasks[i]]
    /\ UNCHANGED <<instVars, prompt, params, eos_config, step, current_step,
                   all_beams, completed, nrequests, yielded, outputs>>

\* The classification with the prompt counted among the generated tokens.
ClassifiedTotalLen(cur, dist, k, cfg, ignore_eos, min_tokens, plen, cstep) ==
    LET token_id == dist[k].token
        new_beam == NewSequence(Append(cur.tokens, token_id),
                                Append(cur.logprobs, dist),
                                cur.cum_logprob + dist[k].logprob)
    IN  IF is_eos_token(cfg, token_id) /\ ~ignore_eos
           /\ Len(new_beam.tokens) >= min_tokens
        THEN [new_beam EXCEPT !.finish_reason = "stop",
                              !.stop_reason = <<token_id>>,
                              !.is_finished = TRUE,
                              !.finished_step = <<cstep>>]
        ELSE new_beam

\* The classification without the ignore_eos test.
ClassifiedIgnoresFlag(cur, dist, k, cfg, ignore_eos, min_tokens, plen, cstep) ==
    LET token_id == dist[k].token
        new_beam == NewSequence(Append(cur.tokens, token_id),
                                Append(cur.logprobs, dist),
                                cur.cum_logprob + dist[k].logprob)
    IN  IF is_eos_token(cfg, token_id)
           /\ Len(new_beam.tokens) - plen >= min_tokens
        THEN [new_beam EXCEPT !.finish_reason = "stop",
                              !.stop_reason = <<token_id>>,
                              !.is_finished = TRUE,
                              !.finished_step = <<cstep>>]
        ELSE new_beam

\* The classification with the min_tokens test strict: an EOS at exactly
\* min_tokens generated tokens does not stop the candidate.
ClassifiedStrictMin(cur, dist, k, cfg, ignore_eos, min_tokens, plen, cstep) ==
    LET token_id == dist[k].token
        new_beam == NewSequence(Append(cur.tokens, token_id),
                                Append(cur.logprobs, dist),
                                cur.cum_logprob + dist[k].logprob)
    IN  IF is_eos_token(cfg, token_id) /\ ~ignore_eos
           /\ Len(new_beam.tokens) - plen > min_tokens
        THEN [new_beam EXCEPT !.finish_reason = "stop",
                              !.stop_reason = <<token_id>>,
                              !.is_finished = TRUE,
                              !.finished_step = <<cstep>>]
        ELSE new_beam

\* The classification with a child's logprob history holding only the
\* distribution of its last token.
ClassifiedDropsHistory(cur, dist, k, cfg, ignore_eos, min_tokens, plen, cstep) ==
    LET token_id == dist[k].token
        new_beam == NewSequence(Append(cur.tokens, token_id),
                                <<dist>>,
                                cur.cum_logprob + dist[k].logprob)
        generated_tokens == Len(new_beam.tokens) - plen
    IN  IF is_eos_token(cfg, token_id) /\ ~ignore_eos
           /\ generated_tokens >= min_tokens
        THEN [new_beam EXCEPT !.finish_reason = "stop",
                              !.stop_reason = <<token_id>>,
                              !.is_finished = TRUE,
                              !.finished_step = <<cstep>>]
        ELSE new_beam

\* Lines 176-201: the candidate for one returned token, classified.
Classified(cur, dist, k, cfg, ignore_eos, min_tokens, plen, cstep) ==
    LET token_id == dist[k].token
        new_beam == NewSequence(Append(cur.tokens, token_id),
                                Append(cur.logprobs, dist),
                                cur.cum_logprob + dist[k].logprob)
        generated_tokens == Len(new_beam.tokens) - plen
    IN  IF is_eos_token(cfg, token_id) /\ ~ignore_eos
           /\ generated_tokens >= min_tokens
        THEN [new_beam EXCEPT !.finish_reason = "stop",
                              !.stop_reason = <<token_id>>,
                              !.is_finished = TRUE,
                              !.finished_step = <<cstep>>]
        ELSE new_beam

\* Lines 170-201 for one parent: its children in the order of the distribution.
Children(cur, result, cfg, ignore_eos, min_tokens, plen, cstep) ==
    IF result.has_logprobs
    THEN [k \in 1..Len(result.logprobs) |->
            Classified(cur, result.logprobs, k, cfg, ignore_eos, min_tokens,
                       plen, cstep)]
    ELSE <<>>

IsFinished(b) == b.is_finished
NotFinished(b) == ~b.is_finished

\* new_beams that also keeps the children that were completed.
NewBeamsOfAll(kids) == kids

\* Lines 195-201: a child goes to `completed` or to `new_beams`, never both.
CompletedOf(kids) == SelectSeq(kids, IsFinished)
NewBeamsOf(kids) == SelectSeq(kids, NotFinished)

\* A join whose results are in the order in which the tasks completed, where
\* that order is recorded (completed_at > 0).
gather_as_completed(ts) ==
    [k \in DOMAIN ts |->
        IF \E i \in DOMAIN ts : ts[i].completed_at = k
        THEN ts[CHOOSE i \in DOMAIN ts : ts[i].completed_at = k].result
        ELSE ts[k].result]

\* Lines 165-167: asyncio.gather returns the results in the order of its
\* arguments, whatever order the tasks completed in.
gather(ts) == [i \in DOMAIN ts |-> ts[i].result]

\* Line 167: of the joined tasks only the results are kept; the order in
\* which they completed is not.
Joined(ts) == [i \in DOMAIN ts |-> [ts[i] EXCEPT !.completed_at = 0]]

\* Lines 167-205: classify every child, sort the kept ones, keep beam_width.
Classify ==
    /\ pc = "classify"
    /\ LET output == gather(tasks)
           kids == Flatten([i \in 1..Len(all_beams) |->
                        Children(all_beams[i], output[i], eos_config,
                                 params.ignore_eos, params.min_tokens,
                                 tokenized_length, current_step)])
           new_beams == NewBeamsOf(kids)
           sorted_beams == SortedDesc(eos_config, params.length_penalty, new_beams)
       IN /\ completed' = completed \o CompletedOf(kids)
          /\ all_beams' = Take(sorted_beams, params.beam_width)
    /\ tasks' = Joined(tasks)
    /\ step' = step + 1
    /\ pc' = "loop"
    /\ UNCHANGED <<instVars, prompt, params, eos_config, current_step, nrequests,
                   error, yielded, outputs>>

\* The finalization of a remaining beam stamped with the step after the last.
FinishLengthNextStep(b, cstep) ==
    IF ~b.is_finished
    THEN [b EXCEPT !.finish_reason = "length", !.is_finished = TRUE,
                   !.finished_step = <<cstep + 1>>]
    ELSE b

\* Lines 208-213 for one remaining beam.
FinishLength(b, cstep) ==
    IF ~b.is_finished
    THEN [b EXCEPT !.finish_reason = "length", !.is_finished = TRUE,
                   !.finished_step = <<cstep>>]
    ELSE b

\* The CompletionOutput with the trailing EOS dropped whatever ignore_eos is.
MakeOutputTrimsAlways(beam, i, cfg, ignore_eos, include_stop, plen) ==
    LET output_tokens ==
            IF Len(beam.tokens) > 0 /\ is_eos_token(cfg, Last(beam.tokens))
               /\ ~include_stop
            THEN SubSeq(beam.tokens, plen + 1, Len(beam.tokens) - 1)
            ELSE SubSeq(beam.tokens, plen + 1, Len(beam.tokens))
    IN  [token_ids |-> output_tokens,
         decoded |-> output_tokens,
         cumulative_logprob |-> beam.cum_logprob,
         index |-> i - 1,
         logprobs |-> beam.logprobs,
         finish_reason |-> IF beam.finish_reason # "none"
                           THEN beam.finish_reason ELSE "length",
         stop_reason |-> beam.stop_reason,
         beam_tokens |-> beam.tokens]

\* The CompletionOutput with the stop reason passed on only if it is truthy:
\* a stop at token id 0 is reported without a stop reason.
MakeOutputTruthyStopReason(beam, i, cfg, ignore_eos, include_stop, plen) ==
    LET output_tokens ==
            IF Len(beam.tokens) > 0 /\ is_eos_token(cfg, Last(beam.tokens))
               /\ ~ignore_eos /\ ~include_stop
            THEN SubSeq(beam.tokens, plen + 1, Len(beam.tokens) - 1)
            ELSE SubSeq(beam.tokens, plen + 1, Len(beam.tokens))
    IN  [token_ids |-> output_tokens,
         decoded |-> output_tokens,
         cumulative_logprob |-> beam.cum_logprob,
         index |-> i - 1,
         logprobs |-> beam.logprobs,
         finish_reason |-> IF beam.finish_reason # "none"
                           THEN beam.finish_reason ELSE "length",
         stop_reason |-> IF beam.stop_reason = <<0>> THEN <<>> ELSE beam.stop_reason,
         beam_tokens |-> beam.tokens]

\* Lines 220-242: the CompletionOutput of one best beam.
MakeOutput(beam, i, cfg, ignore_eos, include_stop, plen) ==
    LET output_tokens ==
            IF Len(beam.tokens) > 0 /\ is_eos_token(cfg, Last(beam.tokens))
               /\ ~ignore_eos /\ ~include_stop
            THEN SubSeq(beam.tokens, plen + 1, Len(beam.tokens) - 1)
            ELSE SubSeq(beam.tokens, plen + 1, Len(beam.tokens))
    IN  [token_ids |-> output_tokens,
         decoded |-> output_tokens,      \* the argument of tokenizer.decode
         cumulative_logprob |-> beam.cum_logprob,
         index |-> i - 1,
         logprobs |-> beam.logprobs,
         finish_reason |-> IF beam.finish_reason # "none"
                           THEN beam.finish_reason ELSE "length",
         stop_reason |-> beam.stop_reason,
         beam_tokens |-> beam.tokens]    \* the beam the output was built from

\* The end of the call with the remaining active beams left out of the ranking.
FinishCompletedOnly ==
    /\ pc = "after_loop"
    /\ LET finished == [i \in 1..Len(all_beams) |->
                            FinishLength(all_beams[i], current_step)]
           sorted_completed == SortedDesc(eos_config, params.length_penalty,
                                          completed)
           best_beams == Take(sorted_completed, params.beam_width)
       IN /\ all_beams' = finished
          /\ completed' = completed
          /\ outputs' = [i \in 1..Len(best_beams) |->
                            MakeOutput(best_beams[i], i, eos_config,
                                       params.ignore_eos,
                                       params.include_stop_str_in_output,
                                       tokenized_length)]
    /\ yielded' = TRUE
    /\ pc' = "done"
    /\ UNCHANGED <<instVars, prompt, params, eos_config, step, current_step, tasks,
                   nrequests, error>>

\* Lines 207-252: finish the remaining beams, rank, build and yield the output.
Finish ==
    /\ pc = "after_loop"
    /\ LET finished == [i \in 1..Len(all_beams) |->
                            FinishLength(all_beams[i], current_step)]
           all_completed == completed \o finished
           sorted_completed == SortedDesc(eos_config, params.length_penalty,
                                          all_completed)
           best_beams == Take(sorted_completed, params.beam_width)
       IN /\ all_beams' = finished
          /\ completed' = all_completed
          /\ outputs' = [i \in 1..Len(best_beams) |->
                            MakeOutput(best_beams[i], i, eos_config,
                                       params.ignore_eos,
                                       params.include_stop_str_in_output,
                                       tokenized_length)]
    /\ yielded' = TRUE
    /\ pc' = "done"
    /\ UNCHANGED <<instVars, prompt, params, eos_config, step, current_step, tasks,
                   nrequests, error>>

Next ==
    \/ Start
    \/ LoopHead
    \/ LoopExit
    \/ \E i \in DOMAIN tasks : RequestReturns(i)
    \/ \E i \in DOMAIN tasks : RequestFails(i)
    \/ GatherReturns
    \/ GatherRaises
    \/ Classify
    \/ Finish
    \/ Cancel

Spec == Init /\ [][Next]_vars

(***************************************************************************)
(* BeamSearchInstance.  Candidates are objects: the lists hold object ids  *)
(* and `heap` holds the objects, so that an object reached through both    *)
(* lists is one object.  The class has no method that adds active beams;   *)
(* its callers assign `beams` and `completed` directly, which is what the  *)
(* initial states draw.                                                    *)
(***************************************************************************)
MaxObjs == 3        \* candidate objects handed to an instance (InstSpec)
MaxCompleted == 2   \* add_completed_beam calls in one run (InstSpec)
MaxStep == 1        \* step() calls in one run (InstSpec)
MaxRanked == 3      \* candidate objects of an instance whose lists are drawn

InstTokenLists == {<<0>>, <<0, 1>>}
InstCums == {0 - 2, 0 - 1}
InstBeams == {NewSequence(t, <<>>, c) : t \in InstTokenLists, c \in InstCums}
\* The mutating methods do not read cum_logprob: one value is enough there.
PlainBeams == {NewSequence(t, <<>>, 0 - 1) : t \in InstTokenLists}

\* EOS configurations of an instance: its methods below read only the ids.
InstEosConfigs ==
    {[DefaultEosConfig EXCEPT !.primary_eos_token_id = p,
                              !.additional_eos_token_ids = a] :
        p \in PrimaryEosSet, a \in AdditionalEosSet}

Ids(seq) == {seq[i] : i \in DOMAIN seq}
Count(seq, x) == Cardinality({i \in DOMAIN seq : seq[i] = x})

\* The variables of the call while an instance is driven.
NoCall ==
    /\ pc = "inst"
    /\ prompt = [kind |-> "tokens", prompt_token_ids |-> PromptTokens]
    /\ params = [beam_width |-> 1, max_tokens |-> 1, ignore_eos |-> FALSE,
                 length_penalty |-> 1, include_stop_str_in_output |-> FALSE,
                 min_tokens |-> 0, additional_eos_token_ids |-> {}]
    /\ step = 0
    /\ current_step = 0
    /\ all_beams = <<>>
    /\ completed = <<>>
    /\ tasks = <<>>
    /\ nrequests = 0
    /\ error = <<>>
    /\ yielded = FALSE
    /\ outputs = <<>>

InitInst ==
    /\ NoCall
    /\ eos_config \in InstEosConfigs
    /\ heap \in [1..MaxObjs -> PlainBeams]
    /\ \E nb \in 0..MaxObjs :
          inst = [beams |-> [i \in 1..nb |-> i], completed |-> <<>>,
                  current_step |-> 0]
    /\ ret = NoRet

\* A finalization that records the last token as stop reason whatever it is.
finalize_beam_any_stop_reason(cfg, cur_step, beam, finish_reason) ==
    [beam EXCEPT !.is_finished = TRUE,
                 !.finished_step = <<cur_step>>,
                 !.finish_reason = finish_reason,
                 !.stop_reason = <<Last(beam.tokens)>>]

finalize_beam(cfg, cur_step, beam, finish_reason) ==
    [beam EXCEPT !.is_finished = TRUE,
                 !.finished_step = <<cur_step>>,
                 !.finish_reason = finish_reason,
                 !.stop_reason = IF is_eos_token(cfg, Last(beam.tokens))
                                 THEN <<Last(beam.tokens)>> ELSE @]

FinalizeBeam(id, reason) ==
    /\ pc = "inst"
    /\ id \in DOMAIN heap
    /\ heap' = [heap EXCEPT ![id] =
                    finalize_beam(eos_config, inst.current_step, heap[id], reason)]
    /\ UNCHANGED <<callVars, inst, ret>>

\* add_completed_beam: what it appends to `completed`.
CompletedAfterAdd(done, id) == Append(done, id)

AddCompletedBeam(id) ==
    /\ pc = "inst"
    /\ id \in DOMAIN heap
    /\ Len(inst.completed) < MaxCompleted
    /\ heap' = IF ~heap[id].is_finished
               THEN [heap EXCEPT ![id] =
                        finalize_beam(eos_config, inst.current_step, heap[id], "stop")]
               ELSE heap
    /\ inst' = [inst EXCEPT !.completed = CompletedAfterAdd(inst.completed, id)]
    /\ UNCHANGED <<callVars, ret>>

StepInst ==
    /\ pc = "inst"
    /\ inst.current_step < MaxStep
    /\ inst' = [inst EXCEPT !.current_step = @ + 1]
    /\ UNCHANGED <<callVars, heap, ret>>

\* A cleanup that removes nothing.
KeepAll(objs, ids) == ids

Unfinished(objs, ids) == SelectSeq(ids, LAMBDA id : ~objs[id].is_finished)

CleanupFinishedBeams ==
    /\ pc = "inst"
    /\ inst' = [inst EXCEPT !.beams = Unfinished(heap, inst.beams)]
    /\ UNCHANGED <<callVars, heap, ret>>

NextInst ==
    \/ \E id \in 1..MaxObjs, reason \in {"stop", "length"} : FinalizeBeam(id, reason)
    \/ \E id \in 1..MaxObjs : AddCompletedBeam(id)
    \/ StepInst
    \/ CleanupFinishedBeams

InstSpec == InitInst /\ [][NextInst]_vars

(***************************************************************************)
(* get_best_completed_beams on instances whose `completed` list was drawn. *)
(***************************************************************************)
InjectiveSeqs(S, n) ==
    UNION {{f \in [1..m -> S] : Injective(f)} : m \in 0..n}

InitRank ==
    /\ NoCall
    /\ eos_config \in InstEosConfigs
    /\ heap \in [1..MaxRanked -> InstBeams]
    /\ \E done \in InjectiveSeqs(1..MaxRanked, MaxRanked) :
          inst = [beams |-> <<>>, completed |-> done, current_step |-> 0]
    /\ ret = NoRet

GetBestCompletedBeams(beam_width, length_penalty) ==
    /\ pc = "inst"
    /\ ret' = [op |-> "get_best_completed_beams", beam_width |-> beam_width,
               length_penalty |-> length_penalty,
               val |-> get_best_completed_beams(eos_config, heap, inst.completed,
                                                beam_width, length_penalty)]
    /\ UNCHANGED <<callVars, heap, inst>>

NextRank ==
    \E w \in 1..MaxWidth, lp \in PenaltySet : GetBestCompletedBeams(w, lp)

RankSpec == InitRank /\ [][NextRank]_vars

(***************************************************************************)
(* should_early_stop on instances whose lists were drawn: the first ids    *)
(* are the completed list (finalized candidates), the others the active    *)
(* list (finished or not).                                                 *)
(***************************************************************************)
LongTokens == [i \in 1..13 |-> 0]
StopTokenLists == {<<0>>, <<0, 1>>, LongTokens}
StopCums == {0 - 100, 0 - 90, 0 - 69}
StopBeams == {NewSequence(t, <<>>, c) : t \in StopTokenLists, c \in StopCums}

\* should_early_stop reads only the primary id of the EOS configuration.
StopEosConfigs ==
    {[DefaultEosConfig EXCEPT !.primary_eos_token_id = p] : p \in PrimaryEosSet}

InitStop ==
    /\ NoCall
    /\ eos_config \in StopEosConfigs
    /\ \E nc \in 0..MaxRanked :
          /\ inst = [beams |-> [i \in 1..(MaxRanked - nc) |-> nc + i],
                     completed |-> [i \in 1..nc |-> i],
                     current_step |-> 0]
          /\ heap \in [1..MaxRanked ->
                          StopBeams \cup {finalize_beam(eos_config, 0, b, "stop") :
                                              b \in StopBeams}]
          /\ \A i \in 1..nc : heap[i].is_finished
    /\ ret = NoRet

ShouldEarlyStop(beam_width, length_penalty) ==
    /\ pc = "inst"
    /\ ret' = [op |-> "should_early_stop", beam_width |-> beam_width,
               length_penalty |-> length_penalty,
               val |-> should_early_stop(eos_config, heap, inst.beams,
                                         inst.completed, beam_width,
                                         length_penalty)]
    /\ UNCHANGED <<callVars, heap, inst>>

NextStop ==
    \E w \in 1..MaxWidth, lp \in PenaltySet : ShouldEarlyStop(w, lp)

StopSpec == InitStop /\ [][NextStop]_vars

(***************************************************************************)
(* The two queries of the stop policy, on instances whose EOS              *)
(* configuration, candidates and step counter were drawn.                  *)
(***************************************************************************)
QueryMinTokens == {0 - 1, 0, 3}
QueryEosConfigs ==
    [primary_eos_token_id : PrimaryEosSet,
     additional_eos_token_ids : AdditionalEosSet,
     ignore_eos : BOOLEAN,
     min_tokens : QueryMinTokens]
QueryTokenLists == {<<>>, <<0, 1>>, <<0, 1, 0>>, <<0, 0, 1>>}

\* should_terminate_beam that knows only the primary EOS id.
should_terminate_beam_primary_only(cfg, cur_step, beam, new_token_id) ==
    IF <<new_token_id>> # cfg.primary_eos_token_id THEN FALSE
    ELSE should_stop_at_eos(cfg, Append(beam.tokens, new_token_id), cur_step)

should_terminate_beam(cfg, cur_step, beam, new_token_id) ==
    IF ~is_eos_token(cfg, new_token_id) THEN FALSE
    ELSE LET new_tokens == Append(beam.tokens, new_token_id)
         IN  should_stop_at_eos(cfg, new_tokens, cur_step)

InitQuery ==
    /\ NoCall
    /\ eos_config \in QueryEosConfigs
    /\ heap \in [1..MaxObjs -> PlainBeams]
    /\ \E k \in 0..MaxStep :
          inst = [beams |-> [i \in 1..MaxObjs |-> i], completed |-> <<>>,
                  current_step |-> k]
    /\ ret = NoRet

ShouldTerminateBeam(id, new_token_id) ==
    /\ pc = "inst"
    /\ id \in DOMAIN heap
    /\ ret' = [op |-> "should_terminate_beam", beam |-> id,
               new_token_id |-> new_token_id,
               val |-> should_terminate_beam(eos_config, inst.current_step,
                                             heap[id], new_token_id)]
    /\ UNCHANGED <<callVars, heap, inst>>

ShouldStopAtEos(tokens, cur_step) ==
    /\ pc = "inst"
    /\ ret' = [op |-> "should_stop_at_eos", tokens |-> tokens,
               current_step |-> cur_step,
               val |-> should_stop_at_eos(eos_config, tokens, cur_step)]
    /\ UNCHANGED <<callVars, heap, inst>>

NextQuery ==
    \/ \E id \in 1..MaxObjs, tok \in Tokens : ShouldTerminateBeam(id, tok)
    \/ \E tokens \in QueryTokenLists, k \in 0..MaxStep : ShouldStopAtEos(tokens, k)

QuerySpec == InitQuery /\ [][NextQuery]_vars

(***************************************************************************)
(* get_beam_search_score on drawn arguments.  `ret` first holds the        *)
(* arguments of the call and then the call with its value.  The length     *)
(* penalty ranges over naturals (Pow is integer exponentiation).           *)
(***************************************************************************)
ScoreTokenLists == {<<>>, <<0>>, <<1>>, <<0, 1>>, <<1, 0>>, <<0, 0, 0>>, <<0, 1, 1>>}
ScoreCums == {0 - 5, 0 - 1, 0}
ScorePenalties == {0, 1, 2}

InitScore ==
    /\ NoCall
    /\ eos_config = DefaultEosConfig
    /\ heap = <<>>
    /\ inst = EmptyInst
    /\ ret \in [op : {"args"}, tokens : ScoreTokenLists,
                cumulative_logprob : ScoreCums, eos_token_id : Tokens]

GetBeamSearchScore(length_penalty) ==
    /\ pc = "inst"
    /\ ret.op \in {"args", "get_beam_search_score"}
    /\ ret' = [op |-> "get_beam_search_score",
               tokens |-> ret.tokens,
               cumulative_logprob |-> ret.cumulative_logprob,
               eos_token_id |-> ret.eos_token_id,
               length_penalty |-> length_penalty,
               val |-> get_beam_search_score(ret.tokens, ret.cumulative_logprob,
                                             ret.eos_token_id, length_penalty)]
    /\ UNCHANGED <<callVars, heap, inst>>

NextScore == \E lp \in ScorePenalties : GetBeamSearchScore(lp)

ScoreSpec == InitScore /\ [][NextScore]_vars

(***************************************************************************)
(* Two calls with the same inputs.  `ret` holds a second call of           *)
(* beam_search with the same prompt and parameters whose requests receive  *)
(* the same responses as those of the first call, request by request, and  *)
(* complete in the order they were issued.  The second call takes each     *)
(* step of lines 167-205 and 207-242 just before the first call does.      *)
(***************************************************************************)
InitTwin ==
    /\ pc = "start"
    /\ prompt \in [kind : PromptKinds, prompt_token_ids : {PromptTokens}]
    /\ params \in ParamsSet
    /\ eos_config = DefaultEosConfig
    /\ step = 0
    /\ current_step = 0
    /\ all_beams = <<>>
    /\ completed = <<>>
    /\ tasks = <<>>
    /\ nrequests = 0
    /\ error = <<>>
    /\ yielded = FALSE
    /\ outputs = <<>>
    /\ heap = <<>>
    /\ inst = EmptyInst
    /\ ret = [op |-> "twin", step |-> 0,
              all_beams |-> <<NewSequence(prompt.prompt_token_ids, <<>>, 0)>>,
              completed |-> <<>>, yielded |-> FALSE, outputs |-> <<>>,
              reordered |-> FALSE]

\* The tasks of the step that have returned so far.
NumDone(ts) == Cardinality({j \in DOMAIN ts : ts[j].state = "done"})

\* A generation request of the first call returns its RequestOutput;
\* completed_at records its place in the order in which the tasks of the
\* step completed.
RequestReturnsAt(i) ==
    /\ i \in DOMAIN tasks
    /\ tasks[i].state = "pending"
    /\ \E r \in Responses :
          tasks' = [tasks EXCEPT ![i].state = "done", ![i].result = r,
                                 ![i].completed_at = NumDone(tasks) + 1]
    /\ UNCHANGED <<instVars, pc, prompt, params, eos_config, step, current_step,
                   all_beams, completed, nrequests, error, yielded, outputs>>

\* The response to the i-th request of the step.
ResponseTo(i) == IF i \in DOMAIN tasks THEN tasks[i].result ELSE NoResponse

\* Two tasks with different results completed against the order in which
\* they were issued.
OutOfOrder(ts) ==
    \E i, j \in DOMAIN ts :
        /\ i < j
        /\ ts[i].completed_at > ts[j].completed_at
        /\ ts[i].result.has_logprobs
        /\ ts[j].result.has_logprobs
        /\ ts[i].result # ts[j].result

\* Lines 167-205 in the second call.
TwinClassify ==
    /\ pc = "classify"
    /\ ret.step = step
    /\ LET kids == Flatten([i \in 1..Len(ret.all_beams) |->
                        Children(ret.all_beams[i], ResponseTo(i), eos_config,
                                 params.ignore_eos, params.min_tokens,
                                 tokenized_length, current_step)])
           sorted_beams == SortedDesc(eos_config, params.length_penalty,
                                      NewBeamsOf(kids))
       IN ret' = [ret EXCEPT !.step = step + 1,
                             !.reordered = @ \/ OutOfOrder(tasks),
                             !.completed = @ \o CompletedOf(kids),
                             !.all_beams = Take(sorted_beams, params.beam_width)]
    /\ UNCHANGED <<callVars, heap, inst>>

\* Lines 207-252 in the second call.
TwinFinish ==
    /\ pc = "after_loop"
    /\ ~ret.yielded
    /\ LET finished == [i \in 1..Len(ret.all_beams) |->
                            FinishLength(ret.all_beams[i], current_step)]
           all_completed == ret.completed \o finished
           best_beams == Take(SortedDesc(eos_config, params.length_penalty,
                                         all_completed), params.beam_width)
       IN ret' = [ret EXCEPT
                    !.all_beams = finished,
                    !.completed = all_completed,
                    !.yielded = TRUE,
                    !.outputs = [i \in 1..Len(best_beams) |->
                                    MakeOutput(best_beams[i], i, eos_config,
                                               params.ignore_eos,
                                               params.include_stop_str_in_output,
                                               tokenized_length)]]
    /\ UNCHANGED <<callVars, heap, inst>>

ClassifyAfterTwin == ret.step = step + 1 /\ Classify
FinishAfterTwin == ret.yielded /\ Finish

NextTwin ==
    \/ Start
    \/ LoopHead
    \/ LoopExit
    \/ \E i \in DOMAIN tasks : RequestReturnsAt(i)
    \/ \E i \in DOMAIN tasks : RequestFails(i)
    \/ GatherReturns
    \/ GatherRaises
    \/ TwinClassify
    \/ ClassifyAfterTwin
    \/ TwinFinish
    \/ FinishAfterTwin
    \/ Cancel

TwinSpec == InitTwin /\ [][NextTwin]_vars

(***************************************************************************)
(* A call whose generation requests all return and that is not cancelled.  *)
(* Whenever the coroutine can run or a request is pending, one of them     *)
(* eventually takes its step: the event loop runs a ready coroutine and    *)
(* every pending request returns.                                          *)
(***************************************************************************)
CallStep ==
    \/ Start
    \/ LoopHead
    \/ LoopExit
    \/ GatherReturns
    \/ Classify
    \/ Finish

NextLive ==
    \/ CallStep
    \/ \E i \in DOMAIN tasks : RequestReturns(i)

\* NextLive can take a step exactly when the call has not ended.
CallEnded == pc \in {"done", "failed", "cancelled"}

\* Weak fairness of NextLive, WF_vars(NextLive), with ENABLED <<NextLive>>_vars
\* written out as ~CallEnded.
LiveSpec ==
    /\ Init
    /\ [][NextLive]_vars
    /\ ([]<>CallEnded \/ []<><<NextLive>>_vars)

FullSpec == (Init \/ InitRank) /\ [][Next \/ NextRank]_vars

(***************************************************************************)
(* Properties.                                                             *)
(***************************************************************************)
\* allEosIds as the policy states it: the primary id, when present, and the
\* additional ids.
PolicyEosIds ==
    eos_config.additional_eos_token_ids
        \cup (IF eos_config.primary_eos_token_id = <<>> THEN {}
              ELSE {eos_config.primary_eos_token_id[1]})

PromptLen == Len(prompt.prompt_token_ids)
GeneratedTokens(tokens) == Len(tokens) - PromptLen

\* The stop condition of step 3d for a candidate with these tokens.
StopCondition(tokens) ==
    /\ Last(tokens) \in PolicyEosIds
    /\ ~params.ignore_eos
    /\ GeneratedTokens(tokens) >= params.min_tokens

HasTokens(seq, tokens) == \E j \in DOMAIN seq : seq[j].tokens = tokens

\* The children of the step being classified, as token lists.
ChildTokens ==
    UNION {{Append(all_beams[i].tokens, tasks[i].result.logprobs[k].token) :
                k \in DOMAIN tasks[i].result.logprobs} : i \in DOMAIN all_beams}

\* C1: in the search loop a new candidate is finalized with Stop and moved to
\* completed exactly if its new token is an EOS id, ignore_eos is false and it
\* has at least min_tokens generated tokens; otherwise it is kept as a
\* next-step candidate (it is in the next active set unless that set is full).
\* Hence every Stop-finished candidate has at least min_tokens generated
\* tokens and ends in an EOS id.
C1_StopIffEosAllowed ==
    /\ [](\A j \in DOMAIN completed :
            completed[j].finish_reason = "stop"
                => /\ StopCondition(completed[j].tokens)
                   /\ completed[j].is_finished
                   /\ completed[j].stop_reason = <<Last(completed[j].tokens)>>)
    /\ [](\A j \in DOMAIN all_beams :
            (pc \in {"loop", "gather", "classify"} /\ GeneratedTokens(all_beams[j].tokens) > 0)
                => ~StopCondition(all_beams[j].tokens))
    /\ [][pc = "classify" =>
            \A child \in ChildTokens :
                IF StopCondition(child)
                THEN /\ \E j \in (Len(completed) + 1)..Len(completed') :
                            /\ completed'[j].tokens = child
                            /\ completed'[j].finish_reason = "stop"
                     /\ ~HasTokens(all_beams', child)
                ELSE /\ ~HasTokens(completed', child)
                     /\ \/ HasTokens(all_beams', child)
                        \/ Len(all_beams') = params.beam_width]_vars

\* A candidate stopped by an EOS at its second generated token, after an EOS as
\* first generated token was not allowed to stop it (min_tokens = 2).
C1_Witness ==
    /\ params.min_tokens = 2
    /\ \E j \in DOMAIN completed :
          /\ completed[j].finish_reason = "stop"
          /\ GeneratedTokens(completed[j].tokens) = 2
          /\ completed[j].tokens[PromptLen + 1] \in PolicyEosIds

\* C2: with ignore_eos no candidate is ever finalized with Stop: a candidate
\* whose new token is an EOS id is kept as a next-step candidate, and every
\* sequence of the final output has finish reason Length and exactly
\* max_tokens generated tokens.
C2_IgnoreEosRunsToLength ==
    /\ [](params.ignore_eos =>
            /\ \A j \in DOMAIN completed : completed[j].finish_reason # "stop"
            /\ \A j \in DOMAIN all_beams : all_beams[j].finish_reason # "stop"
            /\ \A j \in DOMAIN outputs :
                  /\ outputs[j].finish_reason = "length"
                  /\ outputs[j].stop_reason = <<>>
                  /\ Len(outputs[j].token_ids) = params.max_tokens
                  /\ GeneratedTokens(outputs[j].beam_tokens) = params.max_tokens)
    /\ [][(params.ignore_eos /\ pc = "classify") =>
            /\ completed' = completed
            /\ \A child \in ChildTokens :
                  \/ HasTokens(all_beams', child)
                  \/ Len(all_beams') = params.beam_width]_vars

\* An output sequence, under ignore_eos, with an EOS id among its tokens.
C2_Witness ==
    /\ params.ignore_eos
    /\ yielded
    /\ \E j \in DOMAIN outputs :
          /\ outputs[j].token_ids[1] \in PolicyEosIds
          /\ Len(outputs[j].token_ids) >= 2

\* C3: a candidate held by the search state is a member of exactly one of the
\* active list and the completed list, once, after any sequence of
\* add_completed_beam, cleanup_finished_beams and step.
C3_ExactlyOneSet ==
    \A id \in Ids(inst.beams) \cup Ids(inst.completed) :
        Count(inst.beams, id) + Count(inst.completed, id) = 1

\* C4: a finished candidate never receives a further expansion request: the
\* requests of a step are for the active candidates, none of which is
\* finished and none of which is a completed candidate; and a candidate in
\* completed is not changed, moved or removed by any later step.
C4_FinishedNeverExpanded ==
    /\ [](\A i \in DOMAIN tasks :
            /\ pc \in {"gather", "classify"} =>
                  /\ Len(tasks) = Len(all_beams)
                  /\ tasks[i].prompt_token_ids = all_beams[i].tokens
                  /\ ~all_beams[i].is_finished
                  /\ all_beams[i].finish_reason = "none"
            /\ ~HasTokens(completed, tasks[i].prompt_token_ids))
    /\ [](\A j \in DOMAIN completed : completed[j].is_finished)
    /\ [][/\ Len(completed') >= Len(completed)
          /\ \A j \in DOMAIN completed : completed'[j] = completed[j]]_vars

\* Requests of a later step are in flight while a candidate is completed.
C4_Witness ==
    /\ pc = "gather"
    /\ step >= 1
    /\ completed # <<>>
    /\ \E i \in DOMAIN tasks : tasks[i].state = "pending"

\* Requests of the current step that have not returned, failed or been cancelled.
PendingRequests == {i \in DOMAIN tasks : tasks[i].state = "pending"}

\* C5: each step is a fan-out/fan-in barrier: classification and pruning of a
\* step run only when every request of that step has returned, and while a
\* request is outstanding the loop is waiting in that request's step (or the
\* call has failed): no request of the next step has been issued.
C5_StepBarrier ==
    /\ pc = "classify" => \A i \in DOMAIN tasks : tasks[i].state = "done"
    /\ pc \in {"loop", "after_loop", "done"} => PendingRequests = {}
    /\ \A i \in PendingRequests :
          /\ pc \in {"gather", "failed"}
          /\ tasks[i].step = step
          /\ tasks[i].step = current_step
    /\ \A i, j \in DOMAIN tasks : tasks[i].step = tasks[j].step

\* Two requests of the second step have both returned and are classified.
C5_Witness ==
    /\ pc = "classify"
    /\ step = 1
    /\ Len(tasks) = 2

AnyRequestFailed == \E i \in DOMAIN tasks : tasks[i].state = "failed"

\* C6: once a per-step request has failed the call can only fail: it yields no
\* output, it never reaches classification, the failed request is not issued
\* again and no further request is issued.
C6_FailureAbortsSearch ==
    /\ [](AnyRequestFailed =>
            /\ pc \in {"gather", "failed", "cancelled"}
            /\ ~yielded
            /\ outputs = <<>>)
    /\ [](pc = "failed" /\ prompt.kind = "tokens" =>
            AnyRequestFailed /\ error = <<"GenerationError">>)
    /\ [][AnyRequestFailed =>
            /\ nrequests' = nrequests
            /\ DOMAIN tasks' = DOMAIN tasks
            /\ \A i \in DOMAIN tasks :
                  tasks[i].state = "failed" => tasks'[i] = tasks[i]
            /\ all_beams' = all_beams
            /\ completed' = completed]_vars

\* The call failed in its second step, on one request, while the sibling
\* request of that step returned.
C6_Witness ==
    /\ pc = "failed"
    /\ step = 1
    /\ AnyRequestFailed
    /\ \E i \in DOMAIN tasks : tasks[i].state = "done"

C8_UnsupportedPromptRejected ==
    prompt.kind # "tokens" =>
        /\ pc \in {"start", "failed", "cancelled"}
        /\ pc = "failed" => error = <<"NotImplementedError">>
        /\ nrequests = 0
        /\ tasks = <<>>
        /\ all_beams = <<>>
        /\ ~yielded
        /\ outputs = <<>>

C8_Witness ==
    /\ pc = "failed"
    /\ prompt.kind = "embeds"

\* C9: the final result holds exactly min(beam_width, number of candidates
\* ever moved to completed) sequences.  (completed only grows, see C4, so its
\* length is that number.)
C9_ResultLength ==
    yielded => Len(outputs) = Min(params.beam_width, Len(completed))

\* More candidates completed than the beam width.
C9_Witness ==
    /\ yielded
    /\ params.beam_width = 2
    /\ Len(completed) >= 3

\* The position of a candidate in a list without repetitions.
PosIn(seq, x) == CHOOSE i \in DOMAIN seq : seq[i] = x

\* r is a best-first ranking of `width` members of a list: score(x) and pos(x)
\* give the score and the place in the list of a member x.
IsRanking(r, members, width, score(_), pos(_)) ==
    /\ Len(r) = Min(width, Cardinality(members))
    /\ \A k \in DOMAIN r : r[k] \in members
    /\ \A i, j \in DOMAIN r :
          i < j => \/ ScoreLess(score(r[j]), score(r[i]))
                   \/ /\ ScoreEq(score(r[i]), score(r[j]))
                      /\ pos(r[i]) < pos(r[j])
    /\ \A x \in members \ {r[k] : k \in DOMAIN r} :
          \A k \in DOMAIN r :
              \/ ScoreLess(score(x), score(r[k]))
              \/ /\ ScoreEq(score(x), score(r[k]))
                 /\ pos(r[k]) < pos(x)

\* C10 for get_best_completed_beams: the value returned for (width, penalty).
C10_InstanceRanking ==
    ret.op = "get_best_completed_beams" =>
        LET score(id) == get_beam_search_score(heap[id].tokens, heap[id].cum_logprob,
                                               PrimaryOrZero(eos_config),
                                               ret.length_penalty)
            pos(id) == PosIn(inst.completed, id)
        IN  IsRanking(ret.val, Ids(inst.completed), ret.beam_width, score, pos)

\* C10 for the final ranking of beam_search: the outputs, by the tokens of the
\* candidates they were built from (no two completed candidates share tokens).
C10_CallRanking ==
    yielded =>
        LET score(t) ==
                LET b == completed[CHOOSE i \in DOMAIN completed : completed[i].tokens = t]
                IN  get_beam_search_score(b.tokens, b.cum_logprob,
                                          PrimaryOrZero(eos_config),
                                          params.length_penalty)
            pos(t) == CHOOSE i \in DOMAIN completed : completed[i].tokens = t
            members == {completed[i].tokens : i \in DOMAIN completed}
        IN  /\ Cardinality(members) = Len(completed)
            /\ IsRanking([k \in DOMAIN outputs |-> outputs[k].beam_tokens],
                         members, params.beam_width, score, pos)
            /\ \A k \in DOMAIN outputs : outputs[k].index = k - 1

\* C10: get_best_completed_beams(width, penalty), and the final ranking of
\* beam_search, return min(width, |completed|) candidates of completed in
\* descending score order, equal scores in completion order; no candidate
\* left out scores strictly higher than one returned; the call leaves the
\* completed list as it was.
C10_BestCompletedRanking ==
    /\ [](C10_InstanceRanking /\ C10_CallRanking)
    /\ [][ret' # ret => (inst' = inst /\ heap' = heap)]_vars

\* Three completed candidates, the first two with equal scores that beat the
\* third, ranked with width 2.
C10_Witness ==
    /\ ret.op = "get_best_completed_beams"
    /\ ret.beam_width = 2
    /\ Len(inst.completed) = 3
    /\ inst.completed = <<3, 1, 2>>
    /\ ret.val = <<3, 2>>
    /\ heap[3] # heap[2]
    /\ ScoreEq(sort_beams_key(eos_config, ret.length_penalty, heap[3]),
               sort_beams_key(eos_config, ret.length_penalty, heap[2]))

\* The tokens of a candidate after the prompt, and those without the last one.
AfterPrompt(tokens) == SubSeq(tokens, PromptLen + 1, Len(tokens))
AfterPromptTrimmed(tokens) == SubSeq(tokens, PromptLen + 1, Len(tokens) - 1)

\* C11 as stated: the output token ids (and the decoded tokens) of a sequence
\* are the candidate's tokens after the prompt, without the trailing token
\* exactly if the candidate's last token is an EOS id and
\* include_stop_str_in_output is false, whatever the other options are.
C11_TrimIffEosAndNotIncluded ==
    \A j \in DOMAIN outputs :
        LET t == outputs[j].beam_tokens
        IN  /\ outputs[j].token_ids =
                  IF Last(t) \in PolicyEosIds /\ ~params.include_stop_str_in_output
                  THEN AfterPromptTrimmed(t) ELSE AfterPrompt(t)
            /\ outputs[j].decoded = outputs[j].token_ids

\* C11 amended: the trailing token is dropped exactly if the candidate's last
\* token is an EOS id, include_stop_str_in_output is false and ignore_eos is
\* false; with ignore_eos the trailing EOS id stays in the output.
C11_TrimIffEosNotIncludedNotIgnored ==
    \A j \in DOMAIN outputs :
        LET t == outputs[j].beam_tokens
        IN  /\ outputs[j].token_ids =
                  IF /\ Last(t) \in PolicyEosIds
                     /\ ~params.include_stop_str_in_output
                     /\ ~params.ignore_eos
                  THEN AfterPromptTrimmed(t) ELSE AfterPrompt(t)
            /\ outputs[j].decoded = outputs[j].token_ids

\* Two outputs of one call run with ignore_eos and without
\* include_stop_str_in_output: one ends in an EOS id, which is kept, and the
\* other does not.
C11_Witness ==
    /\ yielded
    /\ params.ignore_eos
    /\ ~params.include_stop_str_in_output
    /\ \E j \in DOMAIN outputs :
          /\ Last(outputs[j].beam_tokens) \in PolicyEosIds
          /\ outputs[j].token_ids = AfterPrompt(outputs[j].beam_tokens)
          /\ Len(outputs[j].token_ids) = 2

\* An output whose trailing EOS id was dropped (ignore_eos false).
C11_WitnessTrimmed ==
    /\ yielded
    /\ ~params.ignore_eos
    /\ \E j \in DOMAIN outputs :
          /\ Last(outputs[j].beam_tokens) \in PolicyEosIds
          /\ outputs[j].token_ids = AfterPromptTrimmed(outputs[j].beam_tokens)
          /\ Len(outputs[j].token_ids) = 1

\* A step boundary with steps left and candidates to expand.
StepBoundary ==
    /\ pc = "loop"
    /\ step < params.max_tokens
    /\ all_beams # <<>>

\* C12 as stated: at a step boundary where should_early_stop(beam_width,
\* length_penalty) holds for the current active and completed lists, the
\* search issues no further request and goes on to the final ranking although
\* the active list is not empty.
C12_EarlyStopEndsLoop ==
    [][(StepBoundary /\ EarlyStopHolds) =>
            /\ pc' = "after_loop"
            /\ nrequests' = nrequests]_vars

\* C12 amended: the heuristic is not consulted by the search loop: at a step
\* boundary where should_early_stop holds the search still issues one request
\* per active candidate.
C12_EarlyStopNotConsulted ==
    [][(StepBoundary /\ EarlyStopHolds) =>
            /\ pc' = "gather"
            /\ Len(tasks') = Len(all_beams)
            /\ \A i \in DOMAIN tasks' : tasks'[i].state = "pending"
            /\ nrequests' = nrequests + Len(all_beams)]_vars

\* Requests of the second step are in flight although the heuristic holds for
\* the lists they were made from.
C12_Witness ==
    /\ pc = "gather"
    /\ step = 1
    /\ all_beams # <<>>
    /\ completed # <<>>
    /\ EarlyStopHolds

\* C13: the loop of a call that does not fail is left only when the active
\* list is empty or max_tokens steps have been run, never because enough
\* candidates have completed: at every other step boundary the requests of
\* the step are issued.
C13_LoopRunsToBudgetOrEmpty ==
    /\ [](pc \in {"after_loop", "done"} =>
            \/ all_beams = <<>>
            \/ step = params.max_tokens)
    /\ [][(pc = "loop" /\ pc' = "after_loop") =>
            \/ all_beams = <<>>
            \/ step = params.max_tokens]_vars
    /\ [][StepBoundary => (pc' = "gather" /\ nrequests' > nrequests)]_vars

\* A call that ran its second step although beam_width candidates had been
\* completed in the first.
C13_Witness ==
    /\ pc = "done"
    /\ step = 2
    /\ Cardinality({j \in DOMAIN completed :
                        completed[j].finished_step = <<0>>
                        /\ completed[j].finish_reason = "stop"}) >= params.beam_width
    /\ \E j \in DOMAIN completed : completed[j].finished_step = <<1>>

\* The worst finalist of a should_early_stop call: the last of the top
\* beam_width completed candidates.
WorstFinalist ==
    heap[Last(get_best_completed_beams(eos_config, heap, inst.completed,
                                       ret.beam_width, ret.length_penalty))]

\* The score of a candidate under the length penalty of the call in `ret`.
RetScore(b) ==
    get_beam_search_score(b.tokens, b.cum_logprob, PrimaryOrZero(eos_config),
                          ret.length_penalty)

\* 100 * max(0.70, 0.90 - 0.02 * max(0, len(b.tokens) - len(worst.tokens)))
Margin100(b, worst) ==
    LET diff == Len(b.tokens) - Len(worst.tokens)
        raw == 90 - 2 * (IF diff > 0 THEN diff ELSE 0)
    IN  IF raw > 70 THEN raw ELSE 70

\* score(b) <= score(worst) * margin(b)
WithinMargin(b, worst) ==
    RetScore(b).num * RetScore(worst).den * 100
        <= RetScore(worst).num * Margin100(b, worst) * RetScore(b).den

UnfinishedActive == {id \in Ids(inst.beams) : ~heap[id].is_finished}

\* C14: should_early_stop(width, length_penalty) is true exactly if at least
\* width candidates are completed and every unfinished active candidate b has
\* score(b) <= worstScore * margin(b), with worstScore the score of the last
\* of the top-width completed candidates and margin(b) = max(0.70, 0.90 -
\* 0.02 * max(0, len(b.tokens) - len(tokens of that finalist))); so it is
\* true when width candidates are completed and no active candidate is left.
C14_EarlyStopIffWithinMargin ==
    ret.op = "should_early_stop" =>
        /\ ret.val = TRUE <=>
              /\ Len(inst.completed) >= ret.beam_width
              /\ \A id \in UnfinishedActive : WithinMargin(heap[id], WorstFinalist)
        /\ (Len(inst.completed) >= ret.beam_width /\ UnfinishedActive = {})
              => ret.val = TRUE

\* A call that returned false only because of the 0.70 floor: the one active
\* candidate above its margin is more than ten tokens longer than the worst
\* finalist, and its score is above 0.70 but not above 0.68 of the finalist's.
C14_Witness ==
    /\ ret.op = "should_early_stop"
    /\ ret.val = FALSE
    /\ Len(inst.completed) = ret.beam_width
    /\ \E id \in UnfinishedActive :
          /\ Len(heap[id].tokens) - Len(WorstFinalist.tokens) > 10
          /\ ~WithinMargin(heap[id], WorstFinalist)
          /\ RetScore(heap[id]).num * RetScore(WorstFinalist).den * 100
                <= RetScore(WorstFinalist).num * 68 * RetScore(heap[id]).den
          /\ \A other \in UnfinishedActive \ {id} :
                WithinMargin(heap[other], WorstFinalist)

\* A call that returned true with an unfinished active candidate exactly at
\* its margin, and a finished one in the active list above it.
C14_WitnessTrue ==
    /\ ret.op = "should_early_stop"
    /\ ret.val = TRUE
    /\ \E id \in UnfinishedActive :
          RetScore(heap[id]).num * RetScore(WorstFinalist).den * 100
              = RetScore(WorstFinalist).num * Margin100(heap[id], WorstFinalist)
                    * RetScore(heap[id]).den
    /\ \E id \in Ids(inst.beams) \ UnfinishedActive :
          ~WithinMargin(heap[id], WorstFinalist)

\* A call that returned false because one active candidate is above the margin.
C14_WitnessFalse ==
    /\ ret.op = "should_early_stop"
    /\ ret.val = FALSE
    /\ Len(inst.completed) >= ret.beam_width
    /\ \E id \in UnfinishedActive : ~WithinMargin(heap[id], WorstFinalist)
    /\ \E id \in UnfinishedActive : WithinMargin(heap[id], WorstFinalist)

\* C15: should_early_stop(width, length_penalty) is false whenever fewer than
\* width candidates are completed, whatever the active list holds.
C15_NoEarlyStopBelowWidth ==
    (ret.op = "should_early_stop" /\ Len(inst.completed) < ret.beam_width)
        => ret.val = FALSE

\* Asked with width 2 while one candidate is completed and every active
\* candidate is far below it; and asked with an empty active list.
C15_Witness ==
    /\ ret.op = "should_early_stop"
    /\ ret.beam_width = 2
    /\ Len(inst.completed) = 1
    /\ ret.val = FALSE
    /\ \A id \in UnfinishedActive :
          ScoreLess(RetScore(heap[id]), RetScore(heap[inst.completed[1]]))
    /\ UnfinishedActive # {}

\* C16: should_terminate_beam(candidate, tok) is true exactly if tok is the
\* primary EOS id (when there is one) or an additional EOS id, and the stop
\* gate allows candidate.tokens + [tok] (ignore_eos is false and that list has
\* at least min_tokens tokens); the call changes neither the candidate nor the
\* search state.
C16_TerminateIffEosAndGate ==
    /\ [](ret.op = "should_terminate_beam" =>
            (ret.val = TRUE <=>
                /\ ret.new_token_id \in PolicyEosIds
                /\ ~eos_config.ignore_eos
                /\ Len(heap[ret.beam].tokens) + 1 >= eos_config.min_tokens))
    /\ [][ret'.op = "should_terminate_beam" =>
            (heap' = heap /\ inst' = inst /\ eos_config' = eos_config)]_vars

\* The same candidate and step: an additional EOS id terminates it where the
\* gate allows, and is refused where min_tokens is above the new length.
C16_Witness ==
    /\ ret.op = "should_terminate_beam"
    /\ ret.val = TRUE
    /\ eos_config.primary_eos_token_id # <<ret.new_token_id>>
    /\ ret.new_token_id \in eos_config.additional_eos_token_ids
    /\ eos_config.min_tokens = 3
    /\ Len(heap[ret.beam].tokens) = 2
    /\ inst.current_step = 1

C16_WitnessRefused ==
    /\ ret.op = "should_terminate_beam"
    /\ ret.val = FALSE
    /\ ret.new_token_id \in PolicyEosIds
    /\ ~eos_config.ignore_eos
    /\ eos_config.min_tokens = 3
    /\ Len(heap[ret.beam].tokens) = 1

C18_CleanupKeepsUnfinished ==
    /\ [][CleanupFinishedBeams =>
            /\ \A id \in DOMAIN heap :
                  Count(inst'.beams, id) =
                      IF heap[id].is_finished THEN 0 ELSE Count(inst.beams, id)
            /\ \A i, j \in DOMAIN inst'.beams :
                  i < j => PosIn(inst.beams, inst'.beams[i])
                              < PosIn(inst.beams, inst'.beams[j])
            /\ inst'.completed = inst.completed
            /\ inst'.current_step = inst.current_step
            /\ heap' = heap]_vars
    \* the cleanup leaves the active list as it is only when no active
    \* candidate is finished
    /\ [](Unfinished(heap, inst.beams) = inst.beams =>
            \A id \in Ids(inst.beams) : ~heap[id].is_finished)

\* After a cleanup: the finished second candidate is gone from the active
\* list, the unfinished first and third are still there in their order, and
\* the completed list and the step counter hold what they held.
C18_Witness ==
    /\ pc = "inst"
    /\ inst.beams = <<1, 3>>
    /\ heap[2].is_finished
    /\ ~heap[1].is_finished
    /\ ~heap[3].is_finished
    /\ inst.completed = <<2>>
    /\ inst.current_step = 1

\* C19: after any sequence of add_completed_beam calls each candidate occurs
\* at most once in the completed list (a second call with the same candidate
\* leaves the list as it was).
C19_AddCompletedIdempotent ==
    \A id \in DOMAIN heap : Count(inst.completed, id) <= 1

\* finalize as the contract states it, for a candidate b at step k.
Finalized(b, k, reason) ==
    [tokens |-> b.tokens,
     logprobs |-> b.logprobs,
     cum_logprob |-> b.cum_logprob,
     finish_reason |-> reason,
     stop_reason |-> IF Last(b.tokens) \in PolicyEosIds
                     THEN <<Last(b.tokens)>> ELSE b.stop_reason,
     is_finished |-> TRUE,
     finished_step |-> <<k>>]

\* C20: finalize_beam(candidate, reason) sets is_finished, sets finished_step
\* to the instance's current step and finish_reason to reason, sets
\* stop_reason to the last token if that is an EOS id and leaves it otherwise,
\* and changes nothing else; add_completed_beam finalizes, with reason Stop,
\* only a candidate that is not finished yet.
C20_FinalizeSetsMetadata ==
    /\ [][\A id \in DOMAIN heap, reason \in {"stop", "length"} :
            FinalizeBeam(id, reason) =>
                /\ heap'[id] = Finalized(heap[id], inst.current_step, reason)
                /\ \A other \in DOMAIN heap \ {id} : heap'[other] = heap[other]
                /\ inst' = inst]_vars
    /\ [][\A id \in DOMAIN heap :
            AddCompletedBeam(id) =>
                /\ heap'[id] = IF heap[id].is_finished THEN heap[id]
                               ELSE Finalized(heap[id], inst.current_step, "stop")
                /\ \A other \in DOMAIN heap \ {id} : heap'[other] = heap[other]]_vars

\* A candidate that does not end in an EOS id, finalized with Length at step 0
\* and added to completed: it kept Length, step 0 and no stop reason while the
\* other candidate, ending in an EOS id, was finalized at step 1.
C20_Witness ==
    /\ pc = "inst"
    /\ PolicyEosIds = {1}
    /\ \E a, b \in DOMAIN heap :
          /\ Last(heap[a].tokens) \notin PolicyEosIds
          /\ heap[a].finish_reason = "length"
          /\ heap[a].finished_step = <<0>>
          /\ heap[a].stop_reason = <<>>
          /\ a \in Ids(inst.completed)
          /\ heap[b].finish_reason = "stop"
          /\ heap[b].finished_step = <<1>>
          /\ heap[b].stop_reason = <<1>>

\* A get_beam_search_score call has returned.
Scored == ret.op = "get_beam_search_score"

EndsInEos(tokens, e) == Len(tokens) > 0 /\ Last(tokens) = e

\* len(tokens) without a trailing EOS token.
EffectiveLen(tokens, e) ==
    IF EndsInEos(tokens, e) THEN Len(tokens) - 1 ELSE Len(tokens)

\* C21: for a token list t that does not end in the EOS id e, the score of t
\* equals the score of t + [e] for the same cumulative log-probability and
\* length penalty.
C21_TrailingEosExcluded ==
    (Scored /\ ~EndsInEos(ret.tokens, ret.eos_token_id)) =>
        ScoreEq(ret.val,
                get_beam_search_score(Append(ret.tokens, ret.eos_token_id),
                                      ret.cumulative_logprob, ret.eos_token_id,
                                      ret.length_penalty))

\* A call on two content tokens with a penalty that makes the length count.
C21_Witness ==
    /\ Scored
    /\ ret.tokens = <<1, 0>>
    /\ ret.eos_token_id = 1
    /\ ret.length_penalty = 2
    /\ ret.cumulative_logprob < 0
    /\ ~ScoreEq(ret.val, [num |-> ret.cumulative_logprob, den |-> 1])

\* The score of the same arguments under another length penalty.
ScoreAt(length_penalty) ==
    get_beam_search_score(ret.tokens, ret.cumulative_logprob, ret.eos_token_id,
                          length_penalty)

\* C22 as stated: for tokens of length greater than 1 and any cumulative
\* log-probability the score is strictly increasing in the length penalty.
C22_IncreasingInPenalty ==
    (Scored /\ Len(ret.tokens) > 1) =>
        \A a2 \in ScorePenalties :
            ret.length_penalty < a2 => ScoreLess(ret.val, ScoreAt(a2))

\* C22 amended: the score is strictly increasing in the length penalty when
\* the cumulative log-probability is negative and the effective length (the
\* length without a trailing EOS token) is greater than 1; it is the same for
\* every penalty when the cumulative log-probability is 0 or the effective
\* length is 1.
C22_IncreasingForNegativeAndLong ==
    Scored =>
        \A a2 \in ScorePenalties :
            ret.length_penalty < a2 =>
                /\ (ret.cumulative_logprob < 0
                    /\ EffectiveLen(ret.tokens, ret.eos_token_id) > 1)
                      => ScoreLess(ret.val, ScoreAt(a2))
                /\ (ret.cumulative_logprob = 0
                    \/ EffectiveLen(ret.tokens, ret.eos_token_id) = 1)
                      => ScoreEq(ret.val, ScoreAt(a2))

\* Three content tokens and a negative cumulative log-probability: the score
\* under penalty 1 is below the score under penalty 2.
C22_Witness ==
    /\ Scored
    /\ ret.tokens = <<0, 0, 0>>
    /\ ret.eos_token_id = 1
    /\ ret.cumulative_logprob < 0
    /\ ret.length_penalty = 1
    /\ ScoreLess(ret.val, ScoreAt(2))

\* Two tokens, the second the EOS id: the list is longer than 1 and the score
\* is the same under penalties 1 and 2.
C22_WitnessConstant ==
    /\ Scored
    /\ ret.tokens = <<0, 1>>
    /\ ret.eos_token_id = 1
    /\ ret.cumulative_logprob < 0
    /\ ret.length_penalty = 1
    /\ ScoreEq(ret.val, ScoreAt(2))

\* C23: with length penalty 1 the score is the cumulative log-probability
\* itself, whatever the length of the token list.
C23_PenaltyOneIsRawLogprob ==
    (Scored /\ ret.length_penalty = 1) =>
        ScoreEq(ret.val, [num |-> ret.cumulative_logprob, den |-> 1])

\* C24: the score is the cumulative log-probability divided by the effective
\* length raised to the power of the length penalty.
C24_DividedByLengthPower ==
    (Scored /\ EffectiveLen(ret.tokens, ret.eos_token_id) > 0) =>
        ScoreEq(ret.val,
                [num |-> ret.cumulative_logprob,
                 den |-> Pow(EffectiveLen(ret.tokens, ret.eos_token_id),
                             ret.length_penalty)])

\* C25: a call configured with a negative min_tokens is rejected with a
\* configuration error at its start: it issues no generation request, seeds
\* no candidate and yields nothing.
C25_NegativeMinTokensRejected ==
    params.min_tokens < 0 =>
        /\ pc \in {"start", "failed", "cancelled"}
        /\ nrequests = 0
        /\ tasks = <<>>
        /\ ~yielded

\* The generated tokens of a candidate that are EOS ids.
GeneratedEos(tokens) ==
    {j \in (PromptLen + 1)..Len(tokens) : tokens[j] \in PolicyEosIds}

LengthFinished == {j \in DOMAIN completed : completed[j].finish_reason = "length"}

\* C26 as stated: a candidate finalized with Length after the loop never
\* produced an EOS: none of its generated tokens is an EOS id.
C26_LengthNeverProducedEos ==
    \A j \in LengthFinished : GeneratedEos(completed[j].tokens) = {}

\* C26 amended: a candidate finalized with Length never produced an EOS that
\* was allowed to stop it: each EOS id among its generated tokens was
\* produced under ignore_eos or before min_tokens tokens had been generated.
C26_LengthNeverProducedStoppingEos ==
    \A j \in LengthFinished :
        /\ pc = "done"
        /\ completed[j].is_finished
        /\ \A k \in GeneratedEos(completed[j].tokens) :
              \/ params.ignore_eos
              \/ k - PromptLen < params.min_tokens

\* A candidate finalized with Length, without ignore_eos, whose first
\* generated token is an EOS id (min_tokens was 2) and whose second is not.
C26_Witness ==
    /\ pc = "done"
    /\ ~params.ignore_eos
    /\ params.min_tokens = 2
    /\ \E j \in LengthFinished :
          /\ GeneratedEos(completed[j].tokens) = {PromptLen + 1}
          /\ Len(completed[j].tokens) = PromptLen + 2

\* The children of the current step, in parent order then distribution order,
\* and those of them that were kept (not completed).
StepChildren ==
    Flatten([i \in 1..Len(all_beams) |->
                Children(all_beams[i], tasks[i].result, eos_config,
                         params.ignore_eos, params.min_tokens,
                         tokenized_length, current_step)])

KeptChildren == SelectSeq(StepChildren, NotFinished)

\* C27 for one step: the next active set is the first beam_width candidates
\* of the stable descending-score sort of the kept candidates of all parents.
C27_StepRanking ==
    pc = "classify" /\ pc' = "loop" =>
        LET kept == KeptChildren
            pos(b) == PosIn(kept, b)
            score(b) == get_beam_search_score(b.tokens, b.cum_logprob,
                                              PrimaryOrZero(eos_config),
                                              params.length_penalty)
            members == {kept[i] : i \in DOMAIN kept}
        IN  /\ Cardinality(members) = Len(kept)
            /\ IsRanking(all_beams', members, params.beam_width, score, pos)
            /\ \A i \in DOMAIN all_beams' : ~all_beams'[i].is_finished
            /\ completed' = completed \o SelectSeq(StepChildren, IsFinished)

\* C27: after every step the next active set is the first beam_width
\* candidates of the stable descending-score sort of all kept candidates of
\* all parents; the active set never holds more than beam_width candidates,
\* at most beam_width requests are issued per step, no discarded kept
\* candidate scores strictly higher than a retained one, and candidates
\* completed in the step take no active slot.
C27_PruneToBeamWidth ==
    /\ [](Len(all_beams) <= params.beam_width /\ Len(tasks) <= params.beam_width)
    /\ [][C27_StepRanking]_vars
    /\ [][nrequests' - nrequests <= params.beam_width]_vars

\* The second step of a width-2 search has ended: both parents had two
\* children, all four were kept, two were discarded, and the two retained
\* have different parents, so the sort moved a child of the second parent
\* ahead of a child of the first.
C27_Witness ==
    /\ pc = "loop"
    /\ step = 2
    /\ params.beam_width = 2
    /\ Len(tasks) = 2
    /\ \A i \in DOMAIN tasks : Len(tasks[i].result.logprobs) = 2
    /\ completed = <<>>
    /\ Len(all_beams) = 2
    /\ all_beams[1].tokens[PromptLen + 1] # all_beams[2].tokens[PromptLen + 1]

\* A step of a width-2 search in which children were completed: they are in
\* `completed` and the active set holds kept children only.
C27_WitnessCompleted ==
    /\ pc = "loop"
    /\ step = 2
    /\ params.beam_width = 2
    /\ \E j \in DOMAIN completed : completed[j].finished_step = <<1>>
    /\ Len(all_beams) = 2

\* Every response of the last step that issued requests carries at least
\* beam_width token entries.
FullResponses ==
    /\ tasks # <<>>
    /\ \A i \in DOMAIN tasks :
          /\ tasks[i].state = "done"
          /\ tasks[i].result.has_logprobs
          /\ Len(tasks[i].result.logprobs) >= params.beam_width

\* C29: for max_tokens >= 1, if every generation response carries at least
\* beam_width token entries, the final output contains exactly beam_width
\* sequences (it is enough that the responses of the last step do).
C29_OutputHasBeamWidthSequences ==
    (yielded /\ FullResponses) => Len(outputs) = params.beam_width

\* A width-2 search of two steps whose responses all carried two entries has
\* yielded two sequences, one stopped at an EOS and one cut at max_tokens.
C29_Witness ==
    /\ yielded
    /\ FullResponses
    /\ params.beam_width = 2
    /\ step = 2
    /\ Len(outputs) = 2
    /\ \E i \in DOMAIN outputs : outputs[i].finish_reason = "length"
    /\ \E i \in DOMAIN outputs : outputs[i].finish_reason = "stop"

fixed_margin == 95         \* 0.95, the margin of should_early_stop_old

\* should_early_stop_old of test_early_stopping_fix.py, over the unfinished
\* active candidates of the instance.
should_early_stop_old(cfg, objs, beams, done, beam_width, length_penalty) ==
    IF Len(done) < beam_width THEN FALSE
    ELSE
    LET sorted_completed ==
            get_best_completed_beams(cfg, objs, done, beam_width, length_penalty)
        worst_completed_score ==
            sort_beams_key(cfg, length_penalty, objs[Last(sorted_completed)])
    IN  \A i \in DOMAIN beams :
            LET beam == objs[beams[i]]
            IN  ~beam.is_finished =>
                    ~ExceedsMargin(sort_beams_key(cfg, length_penalty, beam),
                                   worst_completed_score, fixed_margin)

\* C30: whenever the adaptive-margin rule of should_early_stop decides to
\* stop, the fixed rule with margin 0.95 decides to stop as well.
C30_AdaptiveStopImpliesFixedStop ==
    (ret.op = "should_early_stop" /\ ret.val = TRUE) =>
        should_early_stop_old(eos_config, heap, inst.beams, inst.completed,
                              ret.beam_width, ret.length_penalty)

\* The two calls are at the same point: same active set, same completed list.
TwinsAgree == ret.all_beams = all_beams /\ ret.completed = completed

\* C28 for one step: every child of the step extends an active candidate by
\* a token of the response to that candidate's own request.
C28_OwnResponse ==
    pc = "classify" /\ pc' = "loop" =>
        \A b \in {all_beams'[k] : k \in DOMAIN all_beams'}
                 \cup {completed'[k] : k \in (Len(completed) + 1)..Len(completed')} :
            \E i \in DOMAIN all_beams :
                /\ tasks[i].prompt_token_ids = all_beams[i].tokens
                /\ \E k \in DOMAIN tasks[i].result.logprobs :
                      /\ b.tokens = Append(all_beams[i].tokens,
                                           tasks[i].result.logprobs[k].token)
                      /\ b.cum_logprob = all_beams[i].cum_logprob
                                            + tasks[i].result.logprobs[k].logprob

Candidates ==
    {all_beams[i] : i \in DOMAIN all_beams} \cup {completed[i] : i \in DOMAIN completed}

\* b is the child of parent p for the k-th entry of distribution d.
IsExpansion(b, p, d, k) ==
    /\ b.tokens = Append(p.tokens, d[k].token)
    /\ b.cum_logprob = p.cum_logprob + d[k].logprob
    /\ b.logprobs = Append(p.logprobs, d)
    /\ Len(b.logprobs) = Len(p.logprobs) + 1

\* C31 for one step: every candidate created by the step is the expansion of
\* an active candidate by one token of the distribution returned for it.
C31_StepExpands ==
    pc = "classify" /\ pc' = "loop" =>
        \A b \in {all_beams'[k] : k \in DOMAIN all_beams'}
                 \cup {completed'[k] : k \in (Len(completed) + 1)..Len(completed')} :
            \E i \in DOMAIN all_beams :
                \E k \in DOMAIN tasks[i].result.logprobs :
                    IsExpansion(b, all_beams[i], tasks[i].result.logprobs, k)

\* C31: a candidate created by expansion has its parent's tokens followed by
\* the returned token, the parent's cumulative log-probability plus that
\* token's, and a logprob history one entry longer; so every candidate's
\* tokens start with the prompt tokens and its logprob history has as many
\* entries as it has generated tokens, each entry holding the token generated
\* at its position.
C31_ExpansionExtendsParent ==
    /\ [][C31_StepExpands]_vars
    /\ [](\A b \in Candidates :
            /\ Len(b.tokens) >= PromptLen
            /\ SubSeq(b.tokens, 1, PromptLen) = prompt.prompt_token_ids
            /\ Len(b.logprobs) = Len(b.tokens) - PromptLen
            /\ \A j \in DOMAIN b.logprobs :
                  \E k \in DOMAIN b.logprobs[j] :
                      b.logprobs[j][k].token = b.tokens[PromptLen + j])

\* After the second step: an active candidate with two generated tokens and
\* a history of two different distributions, beside a candidate completed in
\* the first step.
C31_Witness ==
    /\ pc = "loop"
    /\ step = 2
    /\ \E b \in {all_beams[i] : i \in DOMAIN all_beams} :
          /\ Len(b.tokens) = PromptLen + 2
          /\ Len(b.logprobs) = 2
          /\ b.logprobs[1] # b.logprobs[2]
    /\ \E j \in DOMAIN completed : Len(completed[j].tokens) = PromptLen + 1

\* C32: if every generation request returns, a call on a supported prompt
\* terminates: it runs at most max_tokens steps, issues at most
\* 1 + (max_tokens - 1) * beam_width requests, and yields exactly one final
\* result; an empty active set ends the loop at the next step without error
\* and the ranked completed candidates are still returned.
C32_CallTerminates ==
    /\ (prompt.kind = "tokens") ~> (pc = "done" /\ yielded /\ error = <<>>)
    /\ [](step <= params.max_tokens)
    /\ [](nrequests <= 1 + (params.max_tokens - 1) * params.beam_width)
    /\ [](yielded => pc = "done")
    /\ [][yielded => (yielded' /\ outputs' = outputs)]_vars
    /\ [][(pc = "loop" /\ all_beams = <<>>) =>
             (pc' = "after_loop" /\ error' = <<>> /\ nrequests' = nrequests)]_vars
    /\ []((pc = "done" /\ all_beams = <<>>) =>
             Len(outputs) = Min(params.beam_width, Len(completed)))

\* A call of max_tokens 2 whose active set was empty after the first step:
\* it left the loop at step 1 and returned its completed candidates.
C32_Witness ==
    /\ pc = "done"
    /\ yielded
    /\ error = <<>>
    /\ params.max_tokens = 2
    /\ step = 1
    /\ nrequests = 1
    /\ all_beams = <<>>
    /\ Len(outputs) = 2

\* A call that used every request it may issue: beam_width 2, max_tokens 2.
C32_WitnessAllRequests ==
    /\ pc = "done"
    /\ params.max_tokens = 2
    /\ params.beam_width = 2
    /\ nrequests = 3

\* The candidate starts with the prompt of the search, as every candidate of
\* a search does.
StartsWithPrompt(tokens) ==
    /\ Len(tokens) >= PromptLen
    /\ SubSeq(tokens, 1, PromptLen) = prompt.prompt_token_ids

\* What lines 176-198 of the beam_search loop decide for the candidate
\* extended by the token, under the stop policy of the instance.
LoopFinalizesWithStop(beam, new_token_id) ==
    Classified(beam, <<[token |-> new_token_id, logprob |-> 0 - 1]>>, 1,
               eos_config, eos_config.ignore_eos, eos_config.min_tokens,
               PromptLen, inst.current_step).finish_reason = "stop"

\* C33: should_terminate_beam(candidate, tok) is true exactly when the
\* beam_search loop would finalize the extended candidate with Stop.
C33_StopDecisionsAgree ==
    (ret.op = "should_terminate_beam" /\ StartsWithPrompt(heap[ret.beam].tokens)) =>
        (ret.val = TRUE <=> LoopFinalizesWithStop(heap[ret.beam], ret.new_token_id))

\* C34: whenever should_early_stop(width, length_penalty) returns true, no
\* unfinished active candidate has a score strictly greater than the score
\* of the worst of the top-width completed candidates (cumulative
\* log-probabilities zero or negative).
C34_EarlyStopSound ==
    (/\ ret.op = "should_early_stop"
     /\ ret.val = TRUE
     /\ \A id \in DOMAIN heap : heap[id].cum_logprob <= 0) =>
        \A id \in UnfinishedActive :
            ~ScoreLess(RetScore(WorstFinalist), RetScore(heap[id]))

\* C35: at the end of a call every completed candidate has finished_step
\* equal to its number of generated tokens minus 1, whether finalized with
\* Stop or with Length; every Length-finalized candidate has exactly
\* max_tokens generated tokens.
C35_FinishedStepIsLastTokenStep ==
    pc = "done" =>
        \A j \in DOMAIN completed :
            /\ completed[j].finish_reason \in {"stop", "length"}
            /\ completed[j].finished_step = <<GeneratedTokens(completed[j].tokens) - 1>>
            /\ completed[j].finish_reason = "length" =>
                  GeneratedTokens(completed[j].tokens) = params.max_tokens

\* A finished call of two steps with a candidate stopped in the first step,
\* one stopped in the second and one finalized with Length.
C35_Witness ==
    /\ pc = "done"
    /\ params.max_tokens = 2
    /\ \E j \in DOMAIN completed :
          completed[j].finish_reason = "stop" /\ completed[j].finished_step = <<0>>
    /\ \E j \in DOMAIN completed :
          completed[j].finish_reason = "stop" /\ completed[j].finished_step = <<1>>
    /\ \E j \in DOMAIN completed :
          completed[j].finish_reason = "length" /\ completed[j].finished_step = <<1>>

\* C36: in the final output every sequence has finish reason Stop or Length,
\* and its stop reason is present exactly if its finish reason is Stop, in
\* which case it is the candidate's last token and an EOS id of the policy.
C36_StopReasonIffStop ==
    yielded =>
        \A i \in DOMAIN outputs :
            /\ outputs[i].finish_reason \in {"stop", "length"}
            /\ outputs[i].stop_reason # <<>> <=> outputs[i].finish_reason = "stop"
            /\ outputs[i].finish_reason = "stop" =>
                  /\ outputs[i].stop_reason = <<Last(outputs[i].beam_tokens)>>
                  /\ Last(outputs[i].beam_tokens) \in PolicyEosIds

\* An output with a sequence stopped at token id 0 beside a sequence cut at
\* max_tokens.
C36_Witness ==
    /\ yielded
    /\ \E i \in DOMAIN outputs :
          outputs[i].finish_reason = "stop" /\ outputs[i].stop_reason = <<0>>
    /\ \E i \in DOMAIN outputs :
          outputs[i].finish_reason = "length" /\ outputs[i].stop_reason = <<>>

\* The generated tokens of the candidate an output was built from.
OutputGenerated(o) == SubSeq(o.beam_tokens, PromptLen + 1, Len(o.beam_tokens))

\* C37: the output token ids omit the candidate's final generated token only
\* when the sequence's finish reason is Stop; every output sequence with
\* finish reason Length carries all max_tokens generated tokens.
C37_OnlyStopIsTrimmed ==
    yielded =>
        \A i \in DOMAIN outputs :
            /\ outputs[i].token_ids # OutputGenerated(outputs[i]) =>
                  outputs[i].finish_reason = "stop"
            /\ outputs[i].finish_reason = "length" =>
                  /\ outputs[i].token_ids = OutputGenerated(outputs[i])
                  /\ Len(outputs[i].token_ids) = params.max_tokens

\* C38: once the failure of a per-step generation request has been
\* propagated to the caller, no sibling request of that step is still
\* outstanding: each has completed or been cancelled.
C38_NoOutstandingSiblingAfterFailure ==
    (pc = "failed" /\ AnyRequestFailed) =>
        \A i \in DOMAIN tasks : tasks[i].state \in {"done", "failed", "cancelled"}

\* The score of a candidate with cumulative log-probability cum counted with
\* n tokens, under the length penalty of the call.
ScoreAtLength(cum, n) ==
    [num |-> cum * Pow(K + 1, params.length_penalty),
     den |-> Pow(K + n, params.length_penalty)]

\* C39: a candidate finalized with Stop by any EOS id of the policy, primary
\* or additional, is ranked with the score of the same candidate without its
\* terminating token; and when the policy has no primary EOS id, no trailing
\* token of the other candidates is excluded from the length.
C39_ExclusionCoversAllStopTokens ==
    \A c \in Candidates :
        LET key == sort_beams_key(eos_config, params.length_penalty, c)
        IN  /\ c.finish_reason = "stop" =>
                  ScoreEq(key, ScoreAtLength(c.cum_logprob, Len(c.tokens) - 1))
            /\ (eos_config.primary_eos_token_id = <<>> /\ c.finish_reason # "stop") =>
                  ScoreEq(key, ScoreAtLength(c.cum_logprob, Len(c.tokens)))

\* The response carries no distribution, or an empty one.
NoDistribution(r) == ~r.has_logprobs \/ r.logprobs = <<>>

\* C40: if the response for an active candidate carries no distribution, the
\* call does not fail and that candidate ends in the completed set,
\* finalized with Length.
C40_CandidateKeptWithoutDistribution ==
    /\ (pc = "classify" /\ AllDone) => error = <<>>
    /\ pc = "done" =>
          \A i \in DOMAIN tasks :
              (tasks[i].state = "done" /\ NoDistribution(tasks[i].result)) =>
                  \E j \in DOMAIN completed :
                      /\ completed[j].tokens = tasks[i].prompt_token_ids
                      /\ completed[j].finish_reason = "length"

====
